---- MODULE Spec2Model ----
(***************************************************************************)
(* Model of the quiz / Q&A backend (src/backend) of the course browser:    *)
(* the two generators with their validate-or-fallback policy, the answer   *)
(* evaluator, and the FastAPI handlers that wrap them.                      *)
(*                                                                          *)
(* Python and JSON values are tagged records [t |-> type, v |-> payload].   *)
(* A string is a sequence of symbols, so that Python's substring test on    *)
(* strings is computed rather than assumed.  A dict is a TLA+ record whose  *)
(* DOMAIN is the set of keys present.                                       *)
(***************************************************************************)
EXTENDS Integers, Sequences, FiniteSets, TLC

VARIABLES
    GROQ_API_KEY,   \* os.environ.get("GROQ_API_KEY") of the backend process
    call,           \* the invocation in hand: function or endpoint, and its inputs
    ret,            \* what that invocation returned (or the HTTP response)
    apiLog,         \* the completion-API requests made during that invocation
    query_params,   \* st.query_params of the player page that is open
    session_state,  \* st.session_state of the page's session
    widgets,        \* the values of the page's radios (q) and text areas (qa)
    run,            \* what the last run of the page script rendered and did
    quizRequest     \* the GET /quiz request whose answer is held as current_quiz

backendVars == <<GROQ_API_KEY, call, ret, apiLog>>
playerVars == <<query_params, session_state, widgets, run, quizRequest>>
vars == <<backendVars, playerVars>>

----------------------------------------------------------------------------
(* Bounds of the model *)

\* longest list the completion API is taken to return
MaxItems == 2

----------------------------------------------------------------------------
(* Python / JSON values *)

JStr(s) == [t |-> "str", v |-> s]
JNum(n) == [t |-> "num", v |-> n]
JBool(b) == [t |-> "bool", v |-> b]
JNull == [t |-> "null"]
JList(s) == [t |-> "list", v |-> s]
JObj(f) == [t |-> "obj", v |-> f]

\* a one-symbol string
Word(w) == JStr(<<w>>)

\* outcome of evaluating a Python expression or block
Return(v) == [k |-> "return", v |-> v]
Raise(e) == [k |-> "raise", e |-> e]

\* the environment variable: unset (os.environ.get gives None) or a string
EnvUnset == [set |-> FALSE]
EnvVal(s) == [set |-> TRUE, val |-> s]

\* a test for None alone
IsNotNone(api_key) == api_key.set

\* `not api_key` is true for None and for the empty string
Truthy(api_key) == api_key.set /\ api_key.val # ""

\* numeric value of a number or a bool; numbers are kept in hundredths, so
\* JNum(50) is 0.5, and True == 1 is 100 hundredths
NumOf(a) == IF a.t = "bool" THEN (IF a.v THEN 100 ELSE 0) ELSE a.v

\* Python ==  on JSON values: structural, with bool and number comparing by value
PyEq(a, b) ==
    IF a.t = b.t THEN a = b
    ELSE /\ a.t \in {"num", "bool"}
         /\ b.t \in {"num", "bool"}
         /\ NumOf(a) = NumOf(b)

\* x is a contiguous run of s  (str.__contains__)
IsSubstring(x, s) ==
    \E i \in 0..(Len(s) - Len(x)) : SubSeq(s, i + 1, i + Len(x)) = x

\* Python `x in c`
PyIn(x, c) ==
    CASE c.t = "list" -> Return(\E i \in 1..Len(c.v) : PyEq(x, c.v[i]))
      [] c.t = "str" -> IF x.t = "str" THEN Return(IsSubstring(x.v, c.v))
                        ELSE Raise("TypeError")
      [] c.t = "obj" -> IF x.t \in {"list", "obj"} THEN Raise("TypeError")
                        ELSE Return(x.t = "str" /\ Len(x.v) = 1 /\ x.v[1] \in DOMAIN c.v)
      [] OTHER -> Raise("TypeError")

\* Python `c[key]` for a string key
Subscript(c, key) ==
    CASE c.t = "obj" -> IF key \in DOMAIN c.v THEN Return(c.v[key]) ELSE Raise("KeyError")
      [] OTHER -> Raise("TypeError")

\* all(key in item for key in keys), keys tried in order
RECURSIVE AllKeysIn(_, _)
AllKeysIn(keys, item) ==
    IF keys = <<>> THEN Return(TRUE)
    ELSE LET r == PyIn(Word(Head(keys)), item) IN
         IF r.k = "raise" THEN r
         ELSE IF ~r.v THEN Return(FALSE)
         ELSE AllKeysIn(Tail(keys), item)

----------------------------------------------------------------------------
(* The completion API, seen from the caller *)

\* message.content: None, or text = optional surrounding whitespace around a
\* document that is either a JSON value or not JSON at all
NoContent == [some |-> FALSE]
Text(pad, doc) == [some |-> TRUE, pad |-> pad, doc |-> doc]
NotJson == [t |-> "garbage"]

\* str.strip()
strip(text) == Text(FALSE, text.doc)

\* json.loads
json_loads(text) ==
    IF text.doc = NotJson THEN Raise("JSONDecodeError") ELSE Return(text.doc)

\* completion.choices[0].message.content.strip() followed by json.loads
ParseResponse(outcome) ==
    IF outcome.kind = "raise" THEN Raise("APIError")
    ELSE IF ~outcome.content.some THEN Raise("AttributeError")
    ELSE json_loads(strip(outcome.content))

----------------------------------------------------------------------------
(* quiz_logic.py *)

QuizKeys == <<"question", "options", "correct_answer">>

QuizItem(q, opts, ans) ==
    JObj([question |-> q, options |-> opts, correct_answer |-> ans])

get_default_quiz ==
    JList(<<
        QuizItem(Word("What is the main purpose of Python?"),
                 JList(<<Word("General-purpose programming"),
                         Word("Only web development"),
                         Word("Only data science"),
                         Word("Only game development")>>),
                 Word("General-purpose programming")),
        QuizItem(Word("Which of these is a core feature of Python?"),
                 JList(<<Word("Dynamic typing"),
                         Word("Static typing only"),
                         Word("Manual memory management"),
                         Word("Compilation required")>>),
                 Word("Dynamic typing")),
        QuizItem(Word("What makes Python popular for beginners?"),
                 JList(<<Word("Simple, readable syntax"),
                         Word("Complex compilation process"),
                         Word("Manual memory management"),
                         Word("Strict typing system")>>),
                 Word("Simple, readable syntax"))
    >>)

\* the two checks made on one item of quiz_data: TRUE when the loop goes on
\* to the next item, FALSE when it returns the default quiz
QuizItemPasses(item) ==
    LET hasKeys == AllKeysIn(QuizKeys, item) IN
    IF hasKeys.k = "raise" THEN hasKeys
    ELSE IF ~hasKeys.v THEN Return(FALSE)
    ELSE LET ans == Subscript(item, "correct_answer")
             opts == Subscript(item, "options") IN
         IF ans.k = "raise" THEN ans
         ELSE IF opts.k = "raise" THEN opts
         ELSE PyIn(ans.v, opts.v)

\* a loop that skips the items failing the check and returns the rest
QuizLoopSkipping(quiz_data, i) ==
    Return(JList(SelectSeq(quiz_data.v,
                           LAMBDA item : QuizItemPasses(item) = Return(TRUE))))

\* for item in quiz_data: ... ; return quiz_data
RECURSIVE QuizLoop(_, _)
QuizLoop(quiz_data, i) ==
    IF i > Len(quiz_data.v) THEN Return(quiz_data)
    ELSE LET ok == QuizItemPasses(quiz_data.v[i]) IN
         IF ok.k = "raise" THEN ok
         ELSE IF ~ok.v THEN Return(get_default_quiz)
         ELSE QuizLoop(quiz_data, i + 1)

\* the body of the try block
QuizTry(api_key, outcome) ==
    IF ~Truthy(api_key) THEN Return(get_default_quiz)
    ELSE LET parsed == ParseResponse(outcome) IN
         IF parsed.k = "raise" THEN parsed
         ELSE IF parsed.v.t # "list" THEN Return(get_default_quiz)
         ELSE IF Len(parsed.v.v) = 0 THEN Return(get_default_quiz)
         ELSE QuizLoop(parsed.v, 1)

\* the function without its except clause
generate_quiz_unguarded(api_key, outcome) == QuizTry(api_key, outcome)

\* try: ... except Exception: return get_default_quiz()
generate_quiz_for_video(api_key, outcome) ==
    LET r == QuizTry(api_key, outcome) IN
    IF r.k = "raise" THEN Return(get_default_quiz) ELSE r

----------------------------------------------------------------------------
(* qa_logic.py *)

QaKeys == <<"question", "expected_concepts">>

QaItem(q, concepts) == JObj([question |-> q, expected_concepts |-> concepts])

get_default_questions ==
    JList(<<
        QaItem(Word("Explain how Python handles variable assignment and memory management."),
               JList(<<Word("dynamic typing"), Word("memory allocation"),
                       Word("reference counting"), Word("garbage collection")>>)),
        QaItem(Word("What are the key differences between lists and tuples in Python, and when would you use each?"),
               JList(<<Word("mutability"), Word("immutability"), Word("data structure"),
                       Word("performance"), Word("use cases")>>)),
        QaItem(Word("Describe Python's approach to object-oriented programming."),
               JList(<<Word("classes"), Word("objects"), Word("inheritance"),
                       Word("encapsulation"), Word("polymorphism")>>))
    >>)

\* the check of expected_concepts without its length test
QaItemPassesAnyList(item) ==
    LET hasKeys == AllKeysIn(QaKeys, item) IN
    IF hasKeys.k = "raise" THEN hasKeys
    ELSE IF ~hasKeys.v THEN Return(FALSE)
    ELSE LET concepts == Subscript(item, "expected_concepts") IN
         IF concepts.k = "raise" THEN concepts
         ELSE Return(concepts.v.t = "list")

\* the two checks made on one item of qa_data
QaItemPasses(item) ==
    LET hasKeys == AllKeysIn(QaKeys, item) IN
    IF hasKeys.k = "raise" THEN hasKeys
    ELSE IF ~hasKeys.v THEN Return(FALSE)
    ELSE LET concepts == Subscript(item, "expected_concepts") IN
         IF concepts.k = "raise" THEN concepts
         ELSE IF concepts.v.t # "list" THEN Return(FALSE)
         ELSE Return(~(Len(concepts.v.v) < 3))

\* for item in qa_data: ... ; return qa_data
RECURSIVE QaLoop(_, _)
QaLoop(qa_data, i) ==
    IF i > Len(qa_data.v) THEN Return(qa_data)
    ELSE LET ok == QaItemPasses(qa_data.v[i]) IN
         IF ok.k = "raise" THEN ok
         ELSE IF ~ok.v THEN Return(get_default_questions)
         ELSE QaLoop(qa_data, i + 1)

\* the body of the try block
QaTry(api_key, outcome) ==
    IF ~Truthy(api_key) THEN Return(get_default_questions)
    ELSE LET parsed == ParseResponse(outcome) IN
         IF parsed.k = "raise" THEN parsed
         ELSE IF parsed.v.t # "list" THEN Return(get_default_questions)
         ELSE IF Len(parsed.v.v) = 0 THEN Return(get_default_questions)
         ELSE QaLoop(parsed.v, 1)

\* the function without its except clause
generate_qa_unguarded(api_key, outcome) == QaTry(api_key, outcome)

\* try: ... except Exception: return get_default_questions()
generate_qa_for_video(api_key, outcome) ==
    LET r == QaTry(api_key, outcome) IN
    IF r.k = "raise" THEN Return(get_default_questions) ELSE r

\* a generator that sends its request a second time
GeneratorRequestsRepeating(fn, api_key, title, description) ==
    IF ~Truthy(api_key) THEN <<>>
    ELSE <<[fn |-> fn, title |-> title, description |-> description],
           [fn |-> fn, title |-> title, description |-> description]>>

\* the request a generator sends: none without a credential, else one
GeneratorRequests(fn, api_key, title, description) ==
    IF ~Truthy(api_key) THEN <<>>
    ELSE <<[fn |-> fn, title |-> title, description |-> description]>>

\* ', '.join(x): x must be an iterable of strings
JoinConcepts(x) ==
    CASE x.t = "list" -> IF \A i \in 1..Len(x.v) : x.v[i].t = "str"
                         THEN Return("joined") ELSE Raise("TypeError")
      [] x.t = "str" -> Return("joined")
      [] x.t = "obj" -> Return("joined")
      [] OTHER -> Raise("TypeError")

\* the f-string of the evaluation prompt reads question['question'], then
\* question['expected_concepts'], which it joins
EvalPrompt(question) ==
    LET q == Subscript(question, "question") IN
    IF q.k = "raise" THEN q
    ELSE LET c == Subscript(question, "expected_concepts") IN
         IF c.k = "raise" THEN c ELSE JoinConcepts(c.v)

\* a lookup that gives the default for anything that is not a dict
DictGetLenient(d, key, default) ==
    IF d.t = "obj" /\ key \in DOMAIN d.v THEN Return(d.v[key]) ELSE Return(default)

\* dict.get(key, default); only a dict has the method
DictGet(d, key, default) ==
    IF d.t # "obj" THEN Raise("AttributeError")
    ELSE IF key \in DOMAIN d.v THEN Return(d.v[key]) ELSE Return(default)

\* the numeric literals among the one-symbol strings the model uses, in hundredths
FloatOfWord(w) ==
    CASE w = "0.5" -> 50
      [] w = "2" -> 200
      [] OTHER -> -1

\* float(x)
PyFloat(x) ==
    CASE x.t = "num" -> Return(JNum(x.v))
      [] x.t = "bool" -> Return(JNum(NumOf(x)))
      [] x.t = "str" -> IF Len(x.v) = 1 /\ FloatOfWord(x.v[1]) >= 0
                        THEN Return(JNum(FloatOfWord(x.v[1])))
                        ELSE Raise("ValueError")
      [] OTHER -> Raise("TypeError")

UnableToEvaluate == <<JNum(0), Word("Unable to evaluate answer"), JList(<<>>)>>
ErrorEvaluating == <<JNum(0), Word("Error evaluating answer"), JList(<<>>)>>

\* the body of the try block
EvalTry(api_key, question, outcome) ==
    IF ~Truthy(api_key) THEN Return(UnableToEvaluate)
    ELSE LET prompt == EvalPrompt(question) IN
         IF prompt.k = "raise" THEN prompt
         ELSE LET parsed == ParseResponse(outcome) IN
              IF parsed.k = "raise" THEN parsed
              ELSE LET score == DictGet(parsed.v, "score", JNum(0)) IN
                   IF score.k = "raise" THEN score
                   ELSE LET f == PyFloat(score.v) IN
                        IF f.k = "raise" THEN f
                        ELSE Return(<<f.v,
                                      DictGet(parsed.v, "feedback", JStr(<<>>)).v,
                                      DictGet(parsed.v, "concepts_covered", JList(<<>>)).v>>)

\* try: ... except Exception: return 0.0, "Error evaluating answer", []
evaluate_answer(api_key, question, outcome) ==
    LET r == EvalTry(api_key, question, outcome) IN
    IF r.k = "raise" THEN Return(ErrorEvaluating) ELSE r

\* the request the evaluator sends: none without a credential or when the
\* prompt cannot be built, else one
EvaluatorRequests(api_key, question, user_answer) ==
    IF ~Truthy(api_key) THEN <<>>
    ELSE IF EvalPrompt(question).k = "raise" THEN <<>>
    ELSE <<[fn |-> "evaluate_answer", question |-> question, answer |-> user_answer]>>

----------------------------------------------------------------------------
(* main.py: the FastAPI handlers *)

HTTPException(status, detail) ==
    [k |-> "raise", e |-> "HTTPException", status |-> status, detail |-> detail]

\* what FastAPI answers: 200 with the returned body, or the status of the
\* HTTPException that left the handler
Response(r) ==
    IF r.k = "raise" THEN [status |-> r.status, detail |-> r.detail]
    ELSE [status |-> 200, body |-> r.v]

\* a query parameter with a default
QueryParam(query, name, default) ==
    IF name \in DOMAIN query THEN query[name] ELSE default

\* except Exception as e: raise HTTPException(status_code=500, detail=str(e));
\* HTTPException is itself an Exception, so the clause catches it too
ExceptException(r) ==
    IF r.k = "raise" THEN HTTPException(500, r.e) ELSE r

\* GET /quiz/{video_id}: the body of the try block, quiz being what
\* generate_quiz_for_video gives when it is reached
GetQuizTry(title, quiz) ==
    IF title = "" THEN HTTPException(400, "Title is required")
    ELSE IF quiz.k = "raise" THEN quiz
    ELSE Return(JObj([quiz |-> quiz.v]))

get_quiz(title, quiz) == Response(ExceptException(GetQuizTry(title, quiz)))

\* `not qa`: None, an empty container, zero and False are falsy
Falsy(x) ==
    CASE x.t \in {"list", "str"} -> Len(x.v) = 0
      [] x.t = "obj" -> DOMAIN x.v = {}
      [] x.t = "null" -> TRUE
      [] x.t = "num" -> x.v = 0
      [] x.t = "bool" -> ~x.v

\* GET /qa/{video_id}: the body of the try block
GetQaTry(title, qa) ==
    IF title = "" THEN HTTPException(400, "Title is required")
    ELSE IF qa.k = "raise" THEN qa
    ELSE IF Falsy(qa.v) THEN HTTPException(404, "Failed to generate Q&A")
    ELSE Return(JObj([qa |-> qa.v]))

get_qa(title, qa) == Response(ExceptException(GetQaTry(title, qa)))

\* POST /qa/evaluate
EvaluateQaTry(evaluation) ==
    IF evaluation.k = "raise" THEN evaluation
    ELSE Return(JObj([score |-> evaluation.v[1],
                      feedback |-> evaluation.v[2],
                      concepts_covered |-> evaluation.v[3]]))

evaluate_qa(evaluation) == Response(ExceptException(EvaluateQaTry(evaluation)))

\* GET /search.  Titles are strings of characters here, so that lower() and
\* the substring tests are computed character by character.
UpperCase ==
    <<"A", "B", "C", "D", "E", "F", "G", "H", "I", "J", "K", "L", "M", "N", "O", "P", "Q", "R", "S", "T", "U", "V", "W", "X", "Y", "Z">>

LowerCase ==
    <<"a", "b", "c", "d", "e", "f", "g", "h", "i", "j", "k", "l", "m", "n", "o", "p", "q", "r", "s", "t", "u", "v", "w", "x", "y", "z">>

LowerChar(c) ==
    IF \E i \in 1..Len(UpperCase) : UpperCase[i] = c
    THEN LowerCase[CHOOSE i \in 1..Len(UpperCase) : UpperCase[i] = c]
    ELSE c

\* str.lower(); only a string has the method
lower(x) ==
    IF x.t # "str" THEN Raise("AttributeError")
    ELSE Return(JStr([i \in 1..Len(x.v) |-> LowerChar(x.v[i])]))

Playlist == JStr(<<"p", "l", "a", "y", "l", "i", "s", "t">>)
Course == JStr(<<"c", "o", "u", "r", "s", "e">>)

\* the filter that keeps titles naming a playlist only
TitleMatchesPlaylistOnly(result) ==
    LET title == DictGet(result, "title", JStr(<<>>)) IN
    IF title.k = "raise" THEN title
    ELSE LET low == lower(title.v) IN
         IF low.k = "raise" THEN low ELSE PyIn(Playlist, low.v)

\* 'playlist' in result.get('title', '').lower() or
\* 'course' in result.get('title', '').lower()
TitleMatches(result) ==
    LET title == DictGet(result, "title", JStr(<<>>)) IN
    IF title.k = "raise" THEN title
    ELSE LET low == lower(title.v) IN
         IF low.k = "raise" THEN low
         ELSE IF PyIn(Playlist, low.v).v THEN Return(TRUE)
         ELSE PyIn(Course, low.v)

\* [result for result in results if ...], from index i on
RECURSIVE FilterResults(_, _)
FilterResults(results, i) ==
    IF i > Len(results) THEN Return(<<>>)
    ELSE LET keep == TitleMatches(results[i]) IN
         IF keep.k = "raise" THEN keep
         ELSE LET rest == FilterResults(results, i + 1) IN
              IF rest.k = "raise" THEN rest
              ELSE IF keep.v THEN Return(<<results[i]>> \o rest.v)
              ELSE rest

\* the body of the try block: the provider raises, or gives its results
SearchTry(outcome) ==
    IF outcome.kind = "raise" THEN Raise("Exception")
    ELSE LET playlists == FilterResults(outcome.results, 1) IN
         IF playlists.k = "raise" THEN playlists ELSE Return(JList(playlists.v))

search_youtube_playlists(outcome) == Response(ExceptException(SearchTry(outcome)))

----------------------------------------------------------------------------
(* src/frontend/pages/player.py: one run of the page script *)

\* A dict (st.session_state, st.query_params, quiz_answers, ...) is a function
\* on the keys that are present.
EmptyDict == [k \in {} |-> JNull]
Put(d, k, v) == (k :> v) @@ d
Get(d, k, default) == IF k \in DOMAIN d THEN d[k] ELSE default
Restrict(d, keys) == [x \in DOMAIN d \cap keys |-> d[x]] @@ EmptyDict

\* if 'k' not in st.session_state: st.session_state.k = v
SetDefault(d, k, v) == IF k \in DOMAIN d THEN d ELSE Put(d, k, v)

\* a number kept exactly: n / d, in hundredths
Frac(n, d) == [n |-> n, d |-> d]
FracAdd(a, b) == Frac(a.n * b.d + b.n * a.d, a.d * b.d)
Half(a) == Frac(a.n, 2 * a.d)
FracLess(a, hundredths) == a.n < hundredths * a.d

\* a URL as urlparse splits it: the path by segments, the query by parameter
Url(hostname, path, query) == [hostname |-> hostname, path |-> path, query |-> query]
EmptyUrl == Url("", <<>>, EmptyDict)

\* path[1:] as a string of symbols
RECURSIVE PathTail(_)
PathTail(path) ==
    IF path = <<>> THEN <<>>
    ELSE IF Len(path) = 1 THEN <<path[1]>>
    ELSE <<path[1], "/">> \o PathTail(Tail(path))

\* None for a URL that is not a YouTube video, the KeyError of a watch URL
\* without v being caught
get_video_id(url) ==
    IF url.hostname = "youtu.be" THEN JStr(PathTail(url.path))
    ELSE IF url.hostname \in {"www.youtube.com", "youtube.com"}
    THEN IF url.path = <<"watch">>
         THEN IF "v" \in DOMAIN url.query THEN Word(url.query.v) ELSE JNull
         ELSE IF Len(url.path) >= 2 /\ url.path[1] \in {"embed", "v"}
         THEN Word(url.path[2])
         ELSE JNull
    ELSE JNull

\* What a request to the backend did: requests raised, or a response came.
Raised == [kind |-> "raise"]
Responded(status, body) == [kind |-> "response", status |-> status, body |-> body]

\* get_quiz of player.py
player_get_quiz(resp) ==
    IF resp.kind = "raise" THEN JList(<<>>)
    ELSE IF resp.status = 200 THEN resp.body
    ELSE JList(<<>>)

\* get_default_questions of player.py
player_default_questions ==
    JList(<<
        QaItem(Word("Explain how Python handles variable assignment and memory management."),
               JList(<<Word("dynamic typing"), Word("memory allocation"),
                       Word("reference counting"), Word("garbage collection")>>)),
        QaItem(Word("What are the key differences between lists and tuples in Python, and when would you use each?"),
               JList(<<Word("mutability"), Word("immutability"), Word("data structure"),
                       Word("performance"), Word("use cases")>>)),
        QaItem(Word("Describe Python's approach to object-oriented programming."),
               JList(<<Word("classes"), Word("objects"), Word("inheritance"),
                       Word("encapsulation"), Word("polymorphism")>>))
    >>)

\* get_qa of player.py
player_get_qa(ss, resp) ==
    IF Falsy(Get(ss, "video_id", JStr(<<>>))) THEN JList(<<>>)
    ELSE IF resp.kind = "raise" THEN player_default_questions
    ELSE IF resp.status = 200
    THEN LET qa_list == DictGet(resp.body, "qa", JList(<<>>)) IN
         IF qa_list.k = "raise" THEN player_default_questions
         ELSE IF Falsy(qa_list.v) THEN player_default_questions
         ELSE qa_list.v
    ELSE player_default_questions

\* the tuple evaluate_qa_answer gives when the request fails
EvaluateError == <<JNum(0), Word("Error evaluating answer"), JList(<<>>)>>

evaluate_qa_answer(resp) ==
    IF resp.kind = "raise" THEN EvaluateError
    ELSE IF resp.status = 200
    THEN LET score == DictGet(resp.body, "score", JNum(0)) IN
         IF score.k = "raise" THEN EvaluateError
         ELSE <<score.v,
                DictGet(resp.body, "feedback", JStr(<<>>)).v,
                DictGet(resp.body, "concepts_covered", JList(<<>>)).v>>
    ELSE EvaluateError

\* Streamlit widgets.  w holds the values the user gave the keyed widgets;
\* clicked is the button whose click caused this run, "none" for no button.
radio(w, i) == Get(w.q, i, JNull)
text_area(w, i) == Get(w.qa, i, "")
button(clicked, key) == clicked = key

\* what a for loop visits: the items of a list, the keys of a dict
Iterate(c) ==
    IF c.t = "list" THEN c.v
    ELSE LET keys == {Word(k) : k \in DOMAIN c.v} IN
         CHOOSE s \in [1..Cardinality(keys) -> keys] : \A k \in keys : \E i \in DOMAIN s : s[i] = k

\* display_quiz, the loop that shows the questions and stores the selections
RECURSIVE QuizQuestions(_, _, _, _)
QuizQuestions(items, i, w, acc) ==
    IF i >= Len(items) THEN [k |-> "return", answers |-> acc.answers, radios |-> acc.radios]
    ELSE LET text == DictGet(items[i + 1], "question", JStr(<<>>)) IN
         IF text.k = "raise"
         THEN [k |-> "raise", e |-> text.e, answers |-> acc.answers, radios |-> acc.radios]
         ELSE LET answer == radio(w, i) IN
              QuizQuestions(items, i + 1, w,
                  [answers |-> IF Falsy(answer) THEN acc.answers
                               ELSE Put(acc.answers, i, answer),
                   radios |-> acc.radios \cup {i}])

\* a grading that counts the questions that have a stored answer
RECURSIVE GradeCountingAnswered(_, _, _)
GradeCountingAnswered(items, answers, i) ==
    IF i >= Len(items) THEN 0
    ELSE (IF i \in DOMAIN answers THEN 1 ELSE 0) + GradeCountingAnswered(items, answers, i + 1)

\* display_quiz, the grading loop: score
RECURSIVE Grade(_, _, _)
Grade(items, answers, i) ==
    IF i >= Len(items) THEN 0
    ELSE LET user_answer == Get(answers, i, JNull)
             correct_answer == DictGet(items[i + 1], "correct_answer", JStr(<<>>)).v
         IN  (IF PyEq(user_answer, correct_answer) THEN 1 ELSE 0)
             + Grade(items, answers, i + 1)

\* the message under the quiz score
QuizMessage(score, n) ==
    IF score = n THEN "perfect"
    ELSE IF score * 100 >= 70 * n THEN "great"
    ELSE "keep learning"

QuizPart(k, ss, radios, buttons, quizMessage) ==
    [k |-> k, ss |-> ss, radios |-> radios, buttons |-> buttons, quizMessage |-> quizMessage]

\* display_quiz from the grading on: the score is stored, the message shown;
\* the Try Again button is created here, inside the branch of the submit button
QuizSubmit(items, ss2, radios, clicked, score) ==
    LET ss3 == [ss2 EXCEPT !.quiz_score = score, !.quiz_submitted = TRUE] IN
    IF button(clicked, "Try Again")
    THEN QuizPart("rerun",
                  [ss3 EXCEPT !.quiz_answers = EmptyDict, !.quiz_submitted = FALSE,
                              !.quiz_score = 0],
                  radios, {"submit_quiz", "Try Again"}, "none")
    ELSE QuizPart("return", ss3, radios, {"submit_quiz", "Try Again"},
                  QuizMessage(score, Len(items)))

\* display_quiz after the questions are shown: the submit button
QuizShown(items, ss1, shown, clicked) ==
    LET ss2 == [ss1 EXCEPT !.quiz_answers = shown.answers] IN
    IF shown.k = "raise" THEN QuizPart(shown.e, ss2, shown.radios, {}, "none")
    ELSE IF ss2.quiz_submitted THEN QuizPart("return", ss2, shown.radios, {}, "none")
    ELSE IF ~button(clicked, "submit_quiz")
    THEN QuizPart("return", ss2, shown.radios, {"submit_quiz"}, "none")
    ELSE QuizSubmit(items, ss2, shown.radios, clicked, Grade(items, ss2.quiz_answers, 0))

\* display_quiz once the session state has its quiz keys
QuizRender(items, ss1, w, clicked) ==
    QuizShown(items, ss1,
              QuizQuestions(items, 0, w, [answers |-> ss1.quiz_answers, radios |-> {}]),
              clicked)

display_quiz(quiz, ss, w, clicked) ==
    IF Falsy(quiz) THEN QuizPart("return", ss, {}, {}, "none")
    ELSE QuizRender(Iterate(quiz),
                    SetDefault(SetDefault(SetDefault(ss,
                        "quiz_answers", EmptyDict), "quiz_submitted", FALSE), "quiz_score", 0),
                    w, clicked)

\* display_qa, the loop that shows the questions and stores the answers typed
RECURSIVE QaQuestions(_, _, _, _)
QaQuestions(items, i, w, acc) ==
    IF i >= Len(items) THEN [k |-> "return", answers |-> acc.answers, texts |-> acc.texts]
    ELSE LET text == DictGet(items[i + 1], "question", JStr(<<>>)) IN
         IF text.k = "raise"
         THEN [k |-> "raise", e |-> text.e, answers |-> acc.answers, texts |-> acc.texts]
         ELSE LET answer == text_area(w, i) IN
              QaQuestions(items, i + 1, w,
                  [answers |-> IF answer = "" THEN acc.answers
                               ELSE Put(acc.answers, i, answer),
                   texts |-> acc.texts \cup {i}])

\* an evaluation loop that sends every question to the evaluator
ShouldEvaluateAlways(user_answer) == TRUE

\* if user_answer:
ShouldEvaluate(user_answer) == user_answer # ""

\* display_qa, the evaluation loop; evals[i] is what the request for question i
\* does if it is made.  The run stops at the first exception.
RECURSIVE QaEvaluate(_, _, _, _, _)
QaEvaluate(items, i, answers, evals, acc) ==
    IF i >= Len(items)
    THEN [k |-> "return", total |-> acc.total, evaluations |-> acc.evaluations,
          log |-> acc.log]
    ELSE
    LET user_answer == Get(answers, i, "") IN
    IF ~ShouldEvaluate(user_answer) THEN QaEvaluate(items, i + 1, answers, evals, acc)
    ELSE
    LET evaluation == evaluate_qa_answer(evals[i])
        log == Append(acc.log, [i |-> i, question |-> items[i + 1], answer |-> user_answer])
        evaluations == Put(acc.evaluations, i, evaluation)
        score == evaluation[1]
        joined == JoinConcepts(evaluation[3])
    IN
    IF score.t \notin {"num", "bool"} \/ joined.k = "raise"
    THEN [k |-> "TypeError", total |-> acc.total, evaluations |-> evaluations, log |-> log]
    ELSE QaEvaluate(items, i + 1, answers, evals,
             [total |-> acc.total + NumOf(score), evaluations |-> evaluations, log |-> log])

\* the thresholds of the combined assessment, in hundredths
RewatchBelow == 70
ReviewBelow == 85

Assessment(combined_score) ==
    IF FracLess(combined_score, RewatchBelow) THEN "rewatch"
    ELSE IF FracLess(combined_score, ReviewBelow) THEN "review"
    ELSE "success"

NoScore == Frac(0, 1)

QaPart(k, ss, texts, buttons, evalLog, message, combined) ==
    [k |-> k, ss |-> ss, texts |-> texts, buttons |-> buttons, evalLog |-> evalLog,
     message |-> message, combined |-> combined]

\* display_qa, the combined performance assessment
QaAssess(ss4, texts, evalLog, avg_score) ==
    IF "quiz_score" \notin DOMAIN ss4
    THEN QaPart("return", ss4, texts, {"submit_qa"}, evalLog, "none", NoScore)
    ELSE
    LET quiz_percentage ==
            IF DOMAIN ss4.quiz_answers # {}
            THEN Frac(100 * ss4.quiz_score, Cardinality(DOMAIN ss4.quiz_answers))
            ELSE Frac(0, 1)
        combined_score == Half(FracAdd(quiz_percentage, avg_score))
    IN  QaPart("return", ss4, texts, {"submit_qa"}, evalLog,
               Assessment(combined_score), combined_score)

\* display_qa after the evaluation loop: the average is stored
QaSubmit(items, ss2, texts, graded) ==
    LET ss3 == [ss2 EXCEPT !.qa_evaluations = graded.evaluations]
        avg_score == Frac(graded.total, Len(items))
    IN
    IF graded.k # "return"
    THEN QaPart(graded.k, ss3, texts, {"submit_qa"}, graded.log, "none", NoScore)
    ELSE QaAssess([ss3 EXCEPT !.qa_total_score = avg_score, !.qa_submitted = TRUE],
                  texts, graded.log, avg_score)

\* display_qa after the questions are shown: the submit button
QaShown(items, ss1, shown, clicked, evals) ==
    LET ss2 == [ss1 EXCEPT !.qa_answers = shown.answers] IN
    IF shown.k = "raise" THEN QaPart(shown.e, ss2, shown.texts, {}, <<>>, "none", NoScore)
    ELSE IF ss2.qa_submitted
    THEN QaPart("return", ss2, shown.texts, {}, <<>>, "none", NoScore)
    ELSE IF ~button(clicked, "submit_qa")
    THEN QaPart("return", ss2, shown.texts, {"submit_qa"}, <<>>, "none", NoScore)
    ELSE QaSubmit(items, ss2, shown.texts,
                  QaEvaluate(items, 0, ss2.qa_answers, evals,
                      [total |-> 0, evaluations |-> ss2.qa_evaluations, log |-> <<>>]))

\* display_qa once the session state has its Q&A keys
QaRender(items, ss1, w, clicked, evals) ==
    QaShown(items, ss1,
            QaQuestions(items, 0, w, [answers |-> ss1.qa_answers, texts |-> {}]),
            clicked, evals)

display_qa(qa_list, ss, w, clicked, evals) ==
    IF Falsy(qa_list) THEN QaPart("return", ss, {}, {}, <<>>, "none", NoScore)
    ELSE QaRender(Iterate(qa_list),
                  SetDefault(SetDefault(SetDefault(SetDefault(ss,
                      "qa_answers", EmptyDict), "qa_evaluations", EmptyDict),
                      "qa_submitted", FALSE), "qa_total_score", Frac(0, 1)),
                  w, clicked, evals)

\* what one run of the script leaves: how it ended, the session state, the
\* widgets it rendered, the Q&A list it displayed, the evaluator requests it
\* made, the messages of the two result panels
Page(fetched, quizPart, qa_list, qaPart) ==
    [k |-> qaPart.k, ss |-> qaPart.ss, fetched |-> fetched,
     radios |-> quizPart.radios, quizMessage |-> quizPart.quizMessage,
     buttons |-> quizPart.buttons \cup qaPart.buttons,
     qa_list |-> qa_list, texts |-> qaPart.texts, evalLog |-> qaPart.evalLog,
     message |-> qaPart.message, combined |-> qaPart.combined]

\* a section the run did not reach
NoQuizPart(ss) == QuizPart("return", ss, {}, {}, "none")
NoQaPart(k, ss) == QaPart(k, ss, {}, {}, <<>>, "none", NoScore)

\* main, the Q&A list is fetched and displayed
QaSection(fetched, quizPart, qa_list, w, clicked, evals) ==
    Page(fetched, quizPart, qa_list, display_qa(qa_list, quizPart.ss, w, clicked, evals))

\* main after display_quiz: an exception or a rerun ends the run there
QuizSection(fetched, quizPart, w, clicked, qaResp, evals) ==
    IF quizPart.k # "return"
    THEN Page(fetched, quizPart, JNull, NoQaPart(quizPart.k, quizPart.ss))
    ELSE QaSection(fetched, quizPart, player_get_qa(quizPart.ss, qaResp), w, clicked, evals)

\* with col1: the video id is stored if the URL has one
col1(ss, video_id) == IF Falsy(video_id) THEN ss ELSE Put(ss, "video_id", video_id)

\* with col2: the quiz is fetched only if the session has none
col2(ss1, w, clicked, quizResp, qaResp, evals) ==
    LET fetched == "current_quiz" \notin DOMAIN ss1
        ss2 == IF fetched THEN Put(ss1, "current_quiz", player_get_quiz(quizResp)) ELSE ss1
    IN  QuizSection(fetched, display_quiz(ss2.current_quiz, ss2, w, clicked),
                    w, clicked, qaResp, evals)

main(qp, ss, w, clicked, quizResp, qaResp, evals) ==
    IF Get(qp, "video", EmptyUrl) = EmptyUrl
    THEN Page(FALSE, NoQuizPart(ss), JNull, NoQaPart("No video selected", ss))
    ELSE col2(col1(ss, get_video_id(Get(qp, "video", EmptyUrl))),
              w, clicked, quizResp, qaResp, evals)

\* the session state a page load starts with
SessionKept(ss) == ss

\* Every page load is a new Streamlit session: st.session_state starts empty
\* when the link of the search page opens the player for a video.
SessionOnOpen(ss) == EmptyDict

----------------------------------------------------------------------------
(* Inputs: what callers pass and what the completion API may answer *)

SeqsUpTo(S, n) == UNION {[1..k -> S] : k \in 0..n}

\* longest list of results the search provider is taken to return
MaxResults == 2

SearchResult(title, link) == JObj([title |-> JStr(title), link |-> Word(link)])

\* records of the search provider: titles naming a playlist or a course in
\* either case, titles naming neither, an empty title, no title
SearchResults ==
    { SearchResult(<<"I", "n", "t", "r", "o", " ", "P", "l", "a", "y", "l", "i", "s", "t">>, "v1"),
      SearchResult(<<"R", "a", "n", "d", "o", "m", " ", "V", "i", "d", "e", "o">>, "v2"),
      SearchResult(<<"F", "u", "l", "l", " ", "C", "o", "u", "r", "s", "e">>, "v3"),
      SearchResult(<<"P", "Y", "T", "H", "O", "N", " ", "C", "O", "U", "R", "S", "E", "S">>, "v4"),
      SearchResult(<<"P", "l", "a", "y", " ", "l", "i", "s", "t", " ", "o", "f", " ", "c", "o", "u", "r", "s">>, "v5"),
      SearchResult(<<>>, "v6"),
      JObj([link |-> Word("v7")]) }

SearchOutcomes ==
    {[kind |-> "raise"]}
    \cup {[kind |-> "results", results |-> r] : r \in SeqsUpTo(SearchResults, MaxResults)}

SearchQueries == {"python", "data science"}

Abcd == JList(<<Word("a"), Word("b"), Word("c"), Word("d")>>)

\* items the completion API may put in a quiz list: well-formed ones, ones the
\* validation rejects, ones on which it raises, and ones of odd types
QuizItems ==
    { QuizItem(Word("q"), Abcd, Word("a")),
      QuizItem(Word("q"), Abcd, Word("z")),
      QuizItem(Word("q"), JList(<<Word("a"), Word("b")>>), Word("b")),
      QuizItem(Word("q"), JStr(<<"a", "b", "c">>), JStr(<<"a", "b">>)),
      QuizItem(Word("q"), JStr(<<"a", "b", "c">>), JStr(<<"c", "a">>)),
      QuizItem(Word("q"), JObj([a |-> JNum(100)]), Word("a")),
      QuizItem(Word("q"), JObj([a |-> JNum(100)]), JList(<<>>)),
      QuizItem(Word("q"), JNull, Word("a")),
      QuizItem(Word("q"), JList(<<JNum(100), JNum(200), JNum(300), JNum(400)>>), JBool(TRUE)),
      JObj([question |-> Word("q"), options |-> Abcd]),
      JObj([options |-> Abcd, correct_answer |-> Word("a")]),
      JStr(<<"question", "options", "correct_answer">>),
      JList(<<Word("question"), Word("options"), Word("correct_answer")>>),
      JNum(100),
      get_default_quiz.v[1] }

Abc == JList(<<Word("a"), Word("b"), Word("c")>>)

QaItems ==
    { QaItem(Word("q"), Abc),
      QaItem(Word("q"), Abcd),
      QaItem(Word("q"), JList(<<Word("a"), Word("b")>>)),
      QaItem(Word("q"), JList(<<>>)),
      QaItem(Word("q"), JStr(<<"a", "b", "c">>)),
      QaItem(Word("q"), JNull),
      QaItem(JNull, JList(<<JNum(100), JNull, Word("a")>>)),
      JObj([question |-> Word("q")]),
      JObj([expected_concepts |-> Abc]),
      JStr(<<"question", "expected_concepts">>),
      JList(<<Word("question"), Word("expected_concepts")>>),
      JNull,
      get_default_questions.v[1] }

\* JSON documents that are not lists
NonLists == { JNull, JNum(100), Word("a"), JObj([quiz |-> JList(<<>>)]) }

\* what one call of client.chat.completions.create may give for the documents docs
Outcomes(docs) ==
    {[kind |-> "raise"], [kind |-> "response", content |-> NoContent]}
    \cup {[kind |-> "response", content |-> Text(pad, doc)] :
             pad \in BOOLEAN, doc \in docs \cup {NotJson}}

QuizOutcomes ==
    Outcomes(NonLists \cup {JList(s) : s \in SeqsUpTo(QuizItems, MaxItems)})

QaOutcomes ==
    Outcomes(NonLists \cup {JList(s) : s \in SeqsUpTo(QaItems, MaxItems)})

Scores ==
    { JNum(0), JNum(50), JNum(100), JNum(500), JNum(0 - 100), Word("0.5"), Word("2"),
      Word("high"), JNull, JBool(TRUE), JList(<<>>) }

EvalField(score, key) ==
    CASE key = "score" -> score
      [] key = "feedback" -> Word("Good answer")
      [] key = "concepts_covered" -> JList(<<Word("a")>>)

EvalObjects ==
    { JObj([key \in keys |-> EvalField(score, key)]) :
        keys \in {{"score", "feedback", "concepts_covered"}, {"score"}},
        score \in Scores }
    \cup { JObj([key \in keys |-> EvalField(JNull, key)]) :
             keys \in {{"feedback", "concepts_covered"}, {}} }

EvalOutcomes == Outcomes(EvalObjects \cup {JNull, JNum(50), Word("a"), JList(<<>>)})

\* the question dict handed to the evaluator
Questions ==
    { QaItem(Word("q"), Abc),
      QaItem(Word("q"), JStr(<<"a", "b", "c">>)),
      QaItem(Word("q"), JList(<<Word("a"), JNum(100), Word("c")>>)),
      QaItem(Word("q"), JNull),
      JObj([question |-> Word("q")]),
      JObj([expected_concepts |-> Abc]),
      JObj([x \in {} |-> JNull]) }

Titles == {"", "Python Basics"}
Descriptions == {"", "Learn Python"}
Answers == {"", "It uses reference counting"}
Keys == {EnvUnset, EnvVal(""), EnvVal("gsk_key")}

\* the query string of GET /quiz/{video_id} and GET /qa/{video_id}
Queries ==
    { [name \in names |-> IF name = "title" THEN title ELSE description] :
        names \in SUBSET {"title", "description"},
        title \in Titles, description \in Descriptions }

\* What the player page is opened with: the links of the search page (to a
\* YouTube video, to a result that is not one) and a page load without
\* parameters.
PlayerLinks ==
    { [video |-> Url("www.youtube.com", <<"watch">>, [v |-> "id1"]),
       title |-> "Python Basics", description |-> "Learn Python"],
      [video |-> Url("example.com", <<"watch">>, [v |-> "id2"]),
       title |-> "Advanced Python", description |-> ""],
      EmptyDict }

Ab == JList(<<Word("a"), Word("b")>>)

\* the quiz the backend may answer GET /quiz with: a question that can be
\* answered wrongly and one that cannot
PlayerQuizzes ==
    { JList(<<QuizItem(Word("q1"), Ab, Word("a")),
              QuizItem(Word("q2"), JList(<<Word("b")>>), Word("b"))>>) }

\* GET /quiz: no answer, a list (api.py), or the list under the key quiz
\* (main.py)
QuizResponses ==
    {Raised, Responded(200, JObj([quiz |-> get_default_quiz]))}
    \cup {Responded(200, quiz) : quiz \in PlayerQuizzes}

\* the list the backend may answer GET /qa/{video_id} with
PlayerQaLists ==
    { JList(<<QaItem(Word("qa1"), Abc)>>) }

\* GET /qa/{video_id}
QaResponses ==
    {Responded(404, JNull)}
    \cup {Responded(200, JObj([qa |-> qa])) : qa \in PlayerQaLists}

Evaluation(score, concepts) ==
    JObj([score |-> score, feedback |-> Word("Good answer"), concepts_covered |-> concepts])

\* POST /qa/evaluate
EvalResponses ==
    { Raised,
      Responded(200, Evaluation(JNum(100), JList(<<Word("a"), Word("b")>>))),
      Responded(200, Evaluation(JNum(100), JNull)) }

\* the indices a Q&A question can have, and what the evaluator does for each
QaIndices ==
    UNION {0..(Len(qa.v) - 1) : qa \in PlayerQaLists \cup {player_default_questions}}

\* the evaluator's answers to the requests for the questions of indices
EvalPlans(indices) ==
    { [i \in QaIndices |-> IF i \in indices THEN plan[i] ELSE Raised] :
        plan \in [indices -> EvalResponses] }

AnswerTexts == {"It uses reference counting"}

----------------------------------------------------------------------------
(* The state machine: one action per function or endpoint *)

\* no player page is open
NoWidgets == [q |-> EmptyDict, qa |-> EmptyDict]

NoRun ==
    [event |-> "none", before |-> EmptyDict, k |-> "return", radios |-> {},
     texts |-> {}, buttons |-> {},
     qa_list |-> JNull, evalLog |-> <<>>, quizMessage |-> "none", message |-> "none",
     combined |-> NoScore]

NoPage ==
    /\ query_params = EmptyDict
    /\ session_state = EmptyDict
    /\ widgets = NoWidgets
    /\ run = NoRun
    /\ quizRequest = [made |-> FALSE]

Idle == call = [fn |-> "none"]

Init ==
    /\ GROQ_API_KEY \in Keys
    /\ call = [fn |-> "none"]
    /\ ret = [k |-> "none"]
    /\ apiLog = <<>>
    /\ NoPage

\* the caller has its answer; the process waits for the next invocation
Finish ==
    /\ ~Idle
    /\ call' = [fn |-> "none"]
    /\ ret' = [k |-> "none"]
    /\ apiLog' = <<>>
    /\ UNCHANGED <<GROQ_API_KEY, playerVars>>

CallGenerateQuiz ==
    /\ Idle
    /\ \E title \in Titles, description \in Descriptions, outcome \in QuizOutcomes :
        /\ call' = [fn |-> "generate_quiz_for_video", title |-> title,
                    description |-> description, outcome |-> outcome]
        /\ ret' = generate_quiz_for_video(GROQ_API_KEY, outcome)
        /\ apiLog' = GeneratorRequests("generate_quiz_for_video", GROQ_API_KEY,
                                       title, description)
        /\ UNCHANGED <<GROQ_API_KEY, playerVars>>

CallGenerateQa ==
    /\ Idle
    /\ \E title \in Titles, description \in Descriptions, outcome \in QaOutcomes :
        /\ call' = [fn |-> "generate_qa_for_video", title |-> title,
                    description |-> description, outcome |-> outcome]
        /\ ret' = generate_qa_for_video(GROQ_API_KEY, outcome)
        /\ apiLog' = GeneratorRequests("generate_qa_for_video", GROQ_API_KEY,
                                       title, description)
        /\ UNCHANGED <<GROQ_API_KEY, playerVars>>

CallEvaluateAnswer ==
    /\ Idle
    /\ \E question \in Questions, answer \in Answers, outcome \in EvalOutcomes :
        /\ call' = [fn |-> "evaluate_answer", question |-> question,
                    answer |-> answer, outcome |-> outcome]
        /\ ret' = evaluate_answer(GROQ_API_KEY, question, outcome)
        /\ apiLog' = EvaluatorRequests(GROQ_API_KEY, question, answer)
        /\ UNCHANGED <<GROQ_API_KEY, playerVars>>

HttpGetQuiz ==
    /\ Idle
    /\ \E query \in Queries, outcome \in QuizOutcomes :
        LET title == QueryParam(query, "title", "")
            description == QueryParam(query, "description", "")
        IN  /\ call' = [fn |-> "GET /quiz", title |-> title,
                        description |-> description, outcome |-> outcome]
            /\ ret' = get_quiz(title, generate_quiz_for_video(GROQ_API_KEY, outcome))
            /\ apiLog' = IF title = "" THEN <<>>
                         ELSE GeneratorRequests("generate_quiz_for_video", GROQ_API_KEY,
                                                title, description)
            /\ UNCHANGED <<GROQ_API_KEY, playerVars>>

HttpGetQa ==
    /\ Idle
    /\ \E query \in Queries, outcome \in QaOutcomes :
        LET title == QueryParam(query, "title", "")
            description == QueryParam(query, "description", "")
        IN  /\ call' = [fn |-> "GET /qa", title |-> title,
                        description |-> description, outcome |-> outcome]
            /\ ret' = get_qa(title, generate_qa_for_video(GROQ_API_KEY, outcome))
            /\ apiLog' = IF title = "" THEN <<>>
                         ELSE GeneratorRequests("generate_qa_for_video", GROQ_API_KEY,
                                                title, description)
            /\ UNCHANGED <<GROQ_API_KEY, playerVars>>

HttpEvaluateQa ==
    /\ Idle
    /\ \E question \in Questions, answer \in Answers, outcome \in EvalOutcomes :
        /\ call' = [fn |-> "POST /qa/evaluate", question |-> question,
                    answer |-> answer, outcome |-> outcome]
        /\ ret' = evaluate_qa(evaluate_answer(GROQ_API_KEY, question, outcome))
        /\ apiLog' = EvaluatorRequests(GROQ_API_KEY, question, answer)
        /\ UNCHANGED <<GROQ_API_KEY, playerVars>>

HttpSearch ==
    /\ Idle
    /\ \E query \in SearchQueries, outcome \in SearchOutcomes :
        /\ call' = [fn |-> "GET /search", query |-> query, outcome |-> outcome]
        /\ ret' = search_youtube_playlists(outcome)
        /\ apiLog' = <<>>
        /\ UNCHANGED <<GROQ_API_KEY, playerVars>>

Next ==
    \/ HttpSearch
    \/ CallGenerateQuiz
    \/ CallGenerateQa
    \/ CallEvaluateAnswer
    \/ HttpGetQuiz
    \/ HttpGetQa
    \/ HttpEvaluateQa
    \/ Finish

Spec == Init /\ [][Next]_vars

\* The handler of GET /qa/{video_id} taken by itself: qa is the value bound at
\* line 91 of main.py, any list of the declared return type of
\* generate_qa_for_video, the empty list the handler tests for at line 94
\* included.
QaLists == {JList(s) : s \in SeqsUpTo(QaItems, MaxItems)}

HandleGetQa ==
    /\ Idle
    /\ \E query \in Queries, qa \in QaLists :
        LET title == QueryParam(query, "title", "")
            description == QueryParam(query, "description", "")
        IN  /\ call' = [fn |-> "get_qa", title |-> title,
                        description |-> description, qa |-> qa]
            /\ ret' = get_qa(title, Return(qa))
            /\ apiLog' = <<>>
            /\ UNCHANGED <<GROQ_API_KEY, playerVars>>

NextGetQa ==
    \/ HandleGetQa
    \/ Finish

SpecGetQa == Init /\ [][NextGetQa]_vars

----------------------------------------------------------------------------
(* The player page: one action per thing the user does, each followed by the
   run of the script that Streamlit starts for it *)

NoRequest == [made |-> FALSE]

\* the page re-rendered by one run of main
Rerun(event, qp, ss, w, clicked) ==
    \* the requests the run cannot make are not enumerated
    \E quizResp \in (IF "video" \in DOMAIN qp /\ "current_quiz" \notin DOMAIN ss
                     THEN QuizResponses ELSE {Raised}),
       qaResp \in (IF "video_id" \in DOMAIN ss
                      \/ ~Falsy(get_video_id(Get(qp, "video", EmptyUrl)))
                   THEN QaResponses ELSE {Raised}) :
    \E evals \in EvalPlans(
            IF clicked = "submit_qa" /\ ~Get(ss, "qa_submitted", FALSE)
            THEN (DOMAIN Get(ss, "qa_answers", EmptyDict) \cup DOMAIN w.qa)
                 \cap 0..(Len(player_get_qa([video_id |-> Word("id")], qaResp).v) - 1)
            ELSE {}) :
        \E first \in {main(qp, ss, w, clicked, quizResp, qaResp, evals)} :
        \* st.experimental_rerun() starts the script again at once
        \E r \in {IF first.k = "rerun"
                  THEN main(qp, first.ss, w, "none", quizResp, qaResp, evals)
                  ELSE first} :
            /\ query_params' = qp
            /\ session_state' = r.ss
            \* a widget the run did not render loses its value
            /\ widgets' = [q |-> Restrict(w.q, r.radios), qa |-> Restrict(w.qa, r.texts)]
            /\ run' = [event |-> event, before |-> query_params, k |-> r.k,
                       radios |-> r.radios,
                       texts |-> r.texts, buttons |-> r.buttons, qa_list |-> r.qa_list,
                       evalLog |-> r.evalLog, quizMessage |-> r.quizMessage,
                       message |-> r.message, combined |-> r.combined]
            /\ quizRequest' =
                   IF r.fetched
                   THEN [made |-> TRUE, title |-> Get(qp, "title", ""),
                         description |-> Get(qp, "description", "")]
                   ELSE IF "current_quiz" \in DOMAIN r.ss THEN quizRequest
                   ELSE NoRequest
            /\ UNCHANGED backendVars

\* the user follows a link of the search page, or loads the page by hand
OpenPlayer ==
    \E qp \in PlayerLinks :
        Rerun("open", qp, SessionOnOpen(session_state), NoWidgets, "none")

\* the options of the radio of question i
OptionsOf(i) ==
    LET options == DictGet(Iterate(session_state.current_quiz)[i + 1], "options",
                           JList(<<>>)).v
    IN  {options.v[j] : j \in 1..Len(options.v)}

SelectAnswer ==
    \E i \in run.radios :
        \E option \in OptionsOf(i) :
            /\ option # radio(widgets, i)
            /\ Rerun("input", query_params, session_state,
                     [widgets EXCEPT !.q = Put(@, i, option)], "none")

TypeAnswer ==
    \E i \in run.texts, text \in AnswerTexts :
        /\ text # text_area(widgets, i)
        /\ Rerun("input", query_params, session_state,
                 [widgets EXCEPT !.qa = IF text = "" THEN Restrict(@, DOMAIN @ \ {i})
                                        ELSE Put(@, i, text)], "none")

ClickSubmitQuiz ==
    /\ "submit_quiz" \in run.buttons
    /\ Rerun("submit_quiz", query_params, session_state, widgets, "submit_quiz")

ClickTryAgain ==
    /\ "Try Again" \in run.buttons
    /\ Rerun("try_again", query_params, session_state, widgets, "Try Again")

ClickSubmitAnswers ==
    /\ "submit_qa" \in run.buttons
    /\ Rerun("submit_qa", query_params, session_state, widgets, "submit_qa")

NextPlayer ==
    \/ OpenPlayer
    \/ SelectAnswer
    \/ TypeAnswer
    \/ ClickSubmitQuiz
    \/ ClickTryAgain
    \/ ClickSubmitAnswers

InitPlayer ==
    /\ GROQ_API_KEY = EnvUnset
    /\ call = [fn |-> "none"]
    /\ ret = [k |-> "none"]
    /\ apiLog = <<>>
    /\ NoPage

SpecPlayer == InitPlayer /\ [][NextPlayer]_vars

----------------------------------------------------------------------------
(* Vocabulary of the properties *)

Generators == {"generate_quiz_for_video", "generate_qa_for_video"}

\* the completion API answered with text that parses as JSON
GotJson ==
    /\ "outcome" \in DOMAIN call
    /\ call.outcome.kind = "response"
    /\ call.outcome.content.some
    /\ call.outcome.content.doc # NotJson

\* the parsed document (meaningful under GotJson)
Doc == call.outcome.content.doc

GotList == GotJson /\ Doc.t = "list"

DefaultOf(fn) ==
    IF fn = "generate_quiz_for_video" THEN get_default_quiz ELSE get_default_questions

\* the item is accepted by the validation loop of the generator fn
ItemValid(fn, item) ==
    IF fn = "generate_quiz_for_video" THEN QuizItemPasses(item) = Return(TRUE)
    ELSE QaItemPasses(item) = Return(TRUE)

\* the values Python's iteration over a container yields
ElementsOf(c) ==
    CASE c.t = "list" -> {c.v[i] : i \in 1..Len(c.v)}
      [] c.t = "str" -> {Word(c.v[i]) : i \in 1..Len(c.v)}
      [] c.t = "obj" -> {Word(key) : key \in DOMAIN c.v}
      [] OTHER -> {}

HasKeys(item, keys) == item.t = "obj" /\ keys \subseteq DOMAIN item.v

----------------------------------------------------------------------------
(* C1 *)

\* C1: whatever the completion API does, generate_quiz_for_video returns a
\* non-empty list in which every item's correct_answer is equal to one
\* element of that item's options.
C1_AnswerIsAnOption ==
    call.fn = "generate_quiz_for_video" =>
        /\ ret.k = "return"
        /\ ret.v.t = "list"
        /\ Len(ret.v.v) > 0
        /\ \A i \in 1..Len(ret.v.v) :
              LET item == ret.v.v[i] IN
              /\ HasKeys(item, {"options", "correct_answer"})
              /\ \E o \in ElementsOf(item.v.options) : PyEq(item.v.correct_answer, o)

----------------------------------------------------------------------------
(* C2 *)

\* C2: generation is all-or-nothing.  A generator returns either the parsed
\* upstream list unchanged, every element of it having passed validation, or
\* exactly the default payload; as soon as one element of the upstream list
\* fails validation the result is the default payload, with nothing of the
\* upstream list kept.
C2_AllOrNothing ==
    call.fn \in Generators =>
        /\ ret.k = "return"
        /\ \/ ret.v = DefaultOf(call.fn)
           \/ /\ GotList
              /\ ret.v = Doc
              /\ \A i \in 1..Len(Doc.v) : ItemValid(call.fn, Doc.v[i])
        /\ (GotList /\ \E i \in 1..Len(Doc.v) : ~ItemValid(call.fn, Doc.v[i]))
              => ret.v = DefaultOf(call.fn)

\* a list whose first element passes and whose second fails, answered with
\* the default quiz
C2_Witness ==
    /\ call.fn = "generate_quiz_for_video"
    /\ Truthy(GROQ_API_KEY)
    /\ GotList
    /\ Len(Doc.v) = 2
    /\ ItemValid(call.fn, Doc.v[1])
    /\ Doc.v[1] # get_default_quiz.v[1]
    /\ ~ItemValid(call.fn, Doc.v[2])
    /\ ret.v = get_default_quiz

----------------------------------------------------------------------------
(* C3 *)

RequiredKeys(fn) ==
    IF fn = "generate_quiz_for_video" THEN {"question", "options", "correct_answer"}
    ELSE {"question", "expected_concepts"}

\* the credential is absent: the variable is unset or empty
CredentialAbsent == GROQ_API_KEY \in {EnvUnset, EnvVal("")}

\* the attempt of the generator fn failed: no credential, an error of the
\* call, a response without text, text that is not JSON, a document that is
\* no non-empty list, an item lacking a required key, an item failing a check
GenerationFailed(fn) ==
    \/ CredentialAbsent
    \/ call.outcome.kind = "raise"
    \/ ~GotJson
    \/ ~GotList
    \/ Len(Doc.v) = 0
    \/ \E i \in 1..Len(Doc.v) : ~HasKeys(Doc.v[i], RequiredKeys(fn))
    \/ \E i \in 1..Len(Doc.v) : ~ItemValid(fn, Doc.v[i])

----------------------------------------------------------------------------
(* C4 *)

\* C4: without a credential (GROQ_API_KEY unset or empty) the two generators
\* and evaluate_answer send nothing to the completion API, and the generators
\* return exactly their default payloads.
C4_NoCredentialNoCall ==
    (call.fn \in Generators \cup {"evaluate_answer"} /\ CredentialAbsent) =>
        /\ apiLog = <<>>
        /\ call.fn \in Generators => ret = Return(DefaultOf(call.fn))

\* the empty credential, with an API that would have answered a valid quiz
C4_Witness ==
    /\ call.fn = "generate_quiz_for_video"
    /\ GROQ_API_KEY = EnvVal("")
    /\ GotList
    /\ Doc = JList(<<QuizItem(Word("q"), Abcd, Word("a"))>>)
    /\ apiLog = <<>>
    /\ ret = Return(get_default_quiz)

----------------------------------------------------------------------------
(* C5 *)

\* float() accepts the value: a number, a bool, or a numeric literal
Convertible(x) ==
    \/ x.t \in {"num", "bool"}
    \/ x.t = "str" /\ x.v \in {<<"0.5">>, <<"2">>}

\* a failure of the evaluation other than a missing credential
EvaluationFailed ==
    \/ ~HasKeys(call.question, {"question", "expected_concepts"})
    \/ call.outcome.kind = "raise"
    \/ ~GotJson
    \/ Doc.t # "obj"
    \/ "score" \in DOMAIN Doc.v /\ ~Convertible(Doc.v.score)

\* C5 as stated: on any failure of evaluate_answer, the absent credential
\* included, the result is exactly (0.0, "Error evaluating answer", []).
C5_AnyFailureGivesError ==
    (call.fn = "evaluate_answer" /\ (CredentialAbsent \/ EvaluationFailed)) =>
        ret = Return(ErrorEvaluating)

\* C5 amended: with a credential, any failure of evaluate_answer (API
\* exception, non-JSON response, response that is not an object, score not
\* convertible to a number, question lacking required keys) gives exactly
\* (0.0, "Error evaluating answer", []); without a credential the result is
\* (0.0, "Unable to evaluate answer", []).
C5_FailureGivesErrorOrUnable ==
    call.fn = "evaluate_answer" =>
        /\ CredentialAbsent => ret = Return(UnableToEvaluate)
        /\ (~CredentialAbsent /\ EvaluationFailed) => ret = Return(ErrorEvaluating)

\* with a credential, a response that is a JSON list, not an object
C5_Witness ==
    /\ call.fn = "evaluate_answer"
    /\ ~CredentialAbsent
    /\ HasKeys(call.question, {"question", "expected_concepts"})
    /\ GotJson
    /\ Doc = JList(<<>>)
    /\ ret = Return(ErrorEvaluating)

----------------------------------------------------------------------------
(* C6 *)

\* the score of the invocation in hand, in hundredths
ReturnedScore ==
    IF call.fn = "evaluate_answer" THEN ret.v[1].v ELSE ret.body.v.score.v

\* C6: whenever the completion API answers evaluate_answer with a JSON
\* object, the score returned by evaluate_answer, and by POST /qa/evaluate,
\* lies in [0, 1].
C6_ScoreInUnitRange ==
    (call.fn \in {"evaluate_answer", "POST /qa/evaluate"} /\ GotJson /\ Doc.t = "obj") =>
        (ReturnedScore >= 0 /\ ReturnedScore <= 100)

----------------------------------------------------------------------------
(* C7 *)

\* C7: every item returned by generate_quiz_for_video has options that is a
\* list of exactly 4 strings and a correct_answer that is a string equal to
\* one of those 4 options.
C7_FourOptionsOneCorrect ==
    call.fn = "generate_quiz_for_video" =>
        \A i \in 1..Len(ret.v.v) :
            LET item == ret.v.v[i] IN
            /\ HasKeys(item, {"options", "correct_answer"})
            /\ item.v.options.t = "list"
            /\ Len(item.v.options.v) = 4
            /\ \A j \in 1..Len(item.v.options.v) : item.v.options.v[j].t = "str"
            /\ item.v.correct_answer.t = "str"
            /\ \E j \in 1..Len(item.v.options.v) :
                  item.v.options.v[j] = item.v.correct_answer

----------------------------------------------------------------------------
(* C8 *)

\* C8: whatever the completion API does, generate_qa_for_video returns a
\* non-empty list in which every item has the keys question and
\* expected_concepts, expected_concepts being a list of at least 3 entries.
C8_QaSchema ==
    call.fn = "generate_qa_for_video" =>
        /\ ret.k = "return"
        /\ ret.v.t = "list"
        /\ Len(ret.v.v) > 0
        /\ \A i \in 1..Len(ret.v.v) :
              LET item == ret.v.v[i] IN
              /\ HasKeys(item, {"question", "expected_concepts"})
              /\ item.v.expected_concepts.t = "list"
              /\ Len(item.v.expected_concepts.v) >= 3

\* an upstream list of two items, returned as it came
C8_Witness ==
    /\ call.fn = "generate_qa_for_video"
    /\ GotList
    /\ Len(Doc.v) = 2
    /\ ret.v = Doc
    /\ ret.v # get_default_questions
    /\ Doc.v[1] # get_default_questions.v[1]

----------------------------------------------------------------------------
(* C9 *)

\* C9: GET /qa/{video_id} and GET /quiz/{video_id} answer a request whose
\* title is empty or missing with status 400.
C9_EmptyTitleIs400 ==
    (call.fn \in {"GET /quiz", "GET /qa"} /\ call.title = "") => ret.status = 400

----------------------------------------------------------------------------
(* C10 *)

C10_GeneratedQaNonEmpty ==
    (call.fn = "GET /qa" /\ ret.status = 200) => Len(ret.body.v.qa.v) > 0

----------------------------------------------------------------------------
(* C11 *)

\* C11: GET /quiz/{video_id} with a non-empty title never answers 500 on a
\* generation failure (missing credential, network error, malformed or
\* schema-invalid upstream response): it answers 200 with {quiz: <non-empty
\* list>}.
C11_QuizEndpointAbsorbsFailures ==
    (call.fn = "GET /quiz" /\ call.title # "") =>
        /\ ret.status = 200
        /\ DOMAIN ret.body.v = {"quiz"}
        /\ ret.body.v.quiz.t = "list"
        /\ Len(ret.body.v.quiz.v) > 0

\* a network error behind a request with a title, answered 200 with the
\* default quiz
C11_Witness ==
    /\ call.fn = "GET /quiz"
    /\ call.title # ""
    /\ ~CredentialAbsent
    /\ call.outcome.kind = "raise"
    /\ ret.status = 200
    /\ ret.body.v.quiz = get_default_quiz

----------------------------------------------------------------------------
(* C13 *)

\* C13: one invocation of generate_quiz_for_video, generate_qa_for_video or
\* evaluate_answer sends at most one request to the completion API; a failed
\* call or an invalid response is not followed by a second request.
C13_AtMostOneRequest ==
    call.fn \in Generators \cup {"evaluate_answer"} => Len(apiLog) <= 1

\* a call that failed, and a response that failed validation: one request each
C13_Witness ==
    /\ call.fn = "generate_quiz_for_video"
    /\ \/ call.outcome.kind = "raise"
       \/ GotList /\ Len(Doc.v) > 0 /\ ~ItemValid(call.fn, Doc.v[1])
    /\ Len(apiLog) = 1
    /\ ret = Return(get_default_quiz)

----------------------------------------------------------------------------
(* C12 *)

\* the title contains the word, whatever the case of its letters
ContainsIgnoringCase(title, word) ==
    \E i \in 0..(Len(title) - Len(word)) :
        \A k \in 1..Len(word) : LowerChar(title[i + k]) = word[k]

\* the result has a title containing "playlist" or "course"
NamesPlaylistOrCourse(result) ==
    /\ "title" \in DOMAIN result.v
    /\ \/ ContainsIgnoringCase(result.v.title.v, Playlist.v)
       \/ ContainsIgnoringCase(result.v.title.v, Course.v)

\* the n-th smallest element of a set of indices
NthOf(indices, n) ==
    CHOOSE j \in indices : Cardinality({k \in indices : k < j}) = n - 1

\* C12: for every list of provider results the /search response is exactly
\* the subsequence, in the provider's order, of the results whose title
\* contains "playlist" or "course" case-insensitively; a result without a
\* title is dropped and nothing is added, removed or reordered.
C12_SearchKeepsPlaylistsAndCourses ==
    (call.fn = "GET /search" /\ call.outcome.kind = "results") =>
        LET results == call.outcome.results
            kept == {j \in 1..Len(results) : NamesPlaylistOrCourse(results[j])}
        IN  /\ ret.status = 200
            /\ ret.body.t = "list"
            /\ Len(ret.body.v) = Cardinality(kept)
            /\ \A n \in 1..Len(ret.body.v) : ret.body.v[n] = results[NthOf(kept, n)]

\* a course in capitals kept after a playlist, the result without a title
\* between them dropped
C12_Witness ==
    /\ call.fn = "GET /search"
    /\ call.outcome.kind = "results"
    /\ Len(call.outcome.results) = 2
    /\ "title" \notin DOMAIN call.outcome.results[1].v
    /\ call.outcome.results[2].v.link = Word("v4")
    /\ ret.status = 200
    /\ ret.body = JList(<<call.outcome.results[2]>>)

----------------------------------------------------------------------------
(* Vocabulary of the properties of the player page *)

QuizSubmitted == Get(session_state, "quiz_submitted", FALSE)
QaSubmitted == Get(session_state, "qa_submitted", FALSE)

\* the indices of the evaluator requests of the last run, in the order made
EvaluatedIndices == [n \in 1..Len(run.evalLog) |-> run.evalLog[n].i]

\* the questions of the list the last run displayed that have a stored answer
AnsweredIndices ==
    {i \in 0..(Len(run.qa_list.v) - 1) :
        /\ i \in DOMAIN session_state.qa_answers
        /\ session_state.qa_answers[i] # ""}

\* the last run was started by Submit Answers and found the list it displays
SubmitAnswersRun == run.event = "submit_qa" /\ run.qa_list.t = "list"

----------------------------------------------------------------------------
(* C14 *)

\* C14 as stated: when the user submits the open-ended answers (qa_submitted
\* false), the evaluator is invoked exactly once for each question of the Q&A
\* list, in index order.
C14_EvaluatesEveryQuestionOnce ==
    [][(~QaSubmitted /\ SubmitAnswersRun')
        => (EvaluatedIndices = [n \in 1..Len(run.qa_list.v) |-> n - 1])']_vars

\* C14 amended: when the user submits the open-ended answers (qa_submitted
\* false), the evaluator is invoked one request after the other in increasing
\* index order, at most once per question, only for the questions that have a
\* non-empty stored answer, each time with the question at that index and the
\* answer stored for it; an unanswered question is never sent.  If the run
\* completes, exactly the answered questions were evaluated and qa_submitted
\* is true; if an evaluation makes the run fail, the answered questions up to
\* that one were evaluated and qa_submitted stays false.
C14_EvaluatesAnsweredQuestionsInOrder ==
    [][(~QaSubmitted /\ SubmitAnswersRun')
        => (LET log == run.evalLog
                last == IF log = <<>> THEN 0 - 1 ELSE log[Len(log)].i
            IN  /\ \A n \in 1..Len(log) :
                    /\ log[n].i \in AnsweredIndices
                    /\ log[n].question = run.qa_list.v[log[n].i + 1]
                    /\ log[n].answer = session_state.qa_answers[log[n].i]
                /\ \A m, n \in 1..Len(log) : m < n => log[m].i < log[n].i
                /\ run.k = "return" =>
                    /\ {log[n].i : n \in 1..Len(log)} = AnsweredIndices
                    /\ QaSubmitted
                /\ run.k # "return" =>
                    /\ {log[n].i : n \in 1..Len(log)} = {i \in AnsweredIndices : i <= last}
                    /\ ~QaSubmitted)']_vars

\* two of three questions answered: the evaluator was invoked for those two,
\* in order, and not for the third
C14_Witness ==
    /\ SubmitAnswersRun
    /\ run.k = "return"
    /\ Len(run.qa_list.v) = 3
    /\ AnsweredIndices = {0, 2}
    /\ EvaluatedIndices = <<0, 2>>
    /\ QaSubmitted

----------------------------------------------------------------------------
(* C15 *)

\* the sum of the scores the evaluator gave in the last run
RECURSIVE SumOfScores(_)
SumOfScores(n) ==
    IF n = 0 THEN 0
    ELSE NumOf(session_state.qa_evaluations[run.evalLog[n].i][1]) + SumOfScores(n - 1)

\* C15: the combined score computed after Q&A submission is the average of
\* the quiz fraction (correctly answered quiz questions / all quiz questions)
\* and the Q&A average (sum of the evaluation scores / number of Q&A
\* questions); rewatch is shown below 0.70, review from 0.70 to below 0.85,
\* success from 0.85.
C15_CombinedIsAverageOfFractions ==
    (SubmitAnswersRun /\ run.message # "none") =>
        LET quizFraction == Frac(100 * session_state.quiz_score,
                                 Len(session_state.current_quiz.v))
            qaAverage == Frac(SumOfScores(Len(run.evalLog)), Len(run.qa_list.v))
            combined == Half(FracAdd(quizFraction, qaAverage))
        IN  /\ run.combined.n * combined.d = combined.n * run.combined.d
            /\ run.message = "rewatch" <=> combined.n < 70 * combined.d
            /\ run.message = "review" <=>
                   (combined.n >= 70 * combined.d /\ combined.n < 85 * combined.d)
            /\ run.message = "success" <=> combined.n >= 85 * combined.d

----------------------------------------------------------------------------
(* C16 *)

\* the questions whose stored answer is the correct one
CorrectlyAnswered ==
    {i \in 0..(Len(session_state.current_quiz.v) - 1) :
        /\ i \in DOMAIN session_state.quiz_answers
        /\ session_state.quiz_answers[i] = session_state.current_quiz.v[i + 1].v.correct_answer}

\* C16: on Submit Quiz with quiz_submitted false, quiz_score becomes the
\* number of questions whose stored answer equals the correct answer, so it
\* lies between 0 and len(quiz), and quiz_submitted becomes true; while
\* quiz_submitted is true no click or rerun of the session changes quiz_score
\* or quiz_submitted.
C16_GradedOnceByCorrectAnswers ==
    [][/\ (~QuizSubmitted /\ run'.event = "submit_quiz")
            => (/\ QuizSubmitted
                /\ session_state.quiz_score = Cardinality(CorrectlyAnswered)
                /\ session_state.quiz_score >= 0
                /\ session_state.quiz_score <= Len(session_state.current_quiz.v))'
       /\ (QuizSubmitted /\ run'.event # "open")
            => /\ QuizSubmitted'
               /\ session_state'.quiz_score = session_state.quiz_score]_vars

\* graded with the first question answered wrongly; the user has since
\* corrected the selection and the score has stayed
C16_Witness ==
    /\ QuizSubmitted
    /\ run.event = "input"
    /\ session_state.quiz_score = 1
    /\ Cardinality(CorrectlyAnswered) = 2

----------------------------------------------------------------------------
(* C17 *)

\* C17: every answer evaluated on Submit Answers is evaluated against the
\* question that the preceding run displayed at that index.
C17_EvaluatedAgainstDisplayedQuestion ==
    [][(~QaSubmitted /\ SubmitAnswersRun')
        => \A n \in 1..Len(run'.evalLog) :
               LET i == run'.evalLog[n].i IN
               /\ run.qa_list.t = "list"
               /\ i < Len(run.qa_list.v)
               /\ run'.evalLog[n].question = run.qa_list.v[i + 1]]_vars

----------------------------------------------------------------------------
(* C18 *)

\* C18: after a quiz has been submitted, clicking Try Again sets
\* quiz_submitted back to false and quiz_score to 0.
C18_TryAgainResets ==
    run.event = "try_again" => (~QuizSubmitted /\ session_state.quiz_score = 0)

----------------------------------------------------------------------------
(* C19 *)

====
